---- MODULE Spec2Model ----
(***************************************************************************)
(* Model of src/json_exporter.py: JSONExporter, the cumulative, per-year   *)
(* article store (articles.json) with its export and archive_year calls.   *)
(*                                                                         *)
(* Strings are sequences of character codes, so that Python's slicing,     *)
(* truthiness, ISO-date parsing and code-point ordering are computed, not  *)
(* assumed.  The file system is a function from path to file content.      *)
(***************************************************************************)
EXTENDS Integers, Sequences, FiniteSets, TLC

(***************************************************************************)
(* Bounds of the model.                                                    *)
(***************************************************************************)
MaxBatch == 2        \* longest list of articles handed to one export call
FirstYear == 2024    \* the UTC year when the exporter is constructed
MaxTicks == 1        \* how many times the UTC year advances
LastYear == FirstYear + MaxTicks

(***************************************************************************)
(* Strings.                                                                *)
(***************************************************************************)
EmptyStr == << >>
Dash == 44 + 1       \* "-"
Colon == 57 + 1      \* ":"
Digit(n) == 48 + n
IsDigit(c) == c >= 48 /\ c <= 57
DigitVal(c) == c - 48

\* s[:n]
Prefix(s, n) == SubSeq(s, 1, IF Len(s) < n THEN Len(s) ELSE n)

\* a or b, on strings: the first when it is non-empty
Or(a, b) == IF a # EmptyStr THEN a ELSE b

\* a < b as Python compares str: by code point at the first place where they
\* differ, a proper prefix being smaller
StrLess(a, b) ==
    LET n == IF Len(a) < Len(b) THEN Len(a) ELSE Len(b)
        differ == { i \in 1..n : a[i] # b[i] }
    IN  IF differ = {} THEN Len(a) < Len(b)
        ELSE LET k == CHOOSE i \in differ : \A j \in differ : i <= j
             IN  a[k] < b[k]

\* the text "YYYY-MM-DD" of a date, used to write the inputs
IsoDate(y, m, d) ==
    << Digit(y \div 1000), Digit((y \div 100) % 10), Digit((y \div 10) % 10),
       Digit(y % 10), Dash, Digit(m \div 10), Digit(m % 10), Dash,
       Digit(d \div 10), Digit(d % 10) >>

\* the text "THH:00:00" appended to a date by an ISO timestamp
IsoTime(h) ==
    << 84, Digit(h \div 10), Digit(h % 10), Colon, Digit(0), Digit(0),
       Colon, Digit(0), Digit(0) >>

(***************************************************************************)
(* datetime.fromisoformat(s).year for the strings the model feeds it: a    *)
(* string of exactly ten characters YYYY-MM-DD naming a real calendar day  *)
(* parses; anything else raises ValueError.  (The inputs hold no basic or  *)
(* week-date form, which only Python 3.11 and later accept.)               *)
(***************************************************************************)
IsLeap(y) == (y % 4 = 0 /\ y % 100 # 0) \/ y % 400 = 0

DaysInMonth(y, m) ==
    IF m = 2 THEN (IF IsLeap(y) THEN 29 ELSE 28)
    ELSE IF m \in {4, 6, 9, 11} THEN 30 ELSE 31

Num2(s, i) == 10 * DigitVal(s[i]) + DigitVal(s[i + 1])

FromIsoFormat(s) ==
    IF /\ Len(s) = 10
       /\ \A i \in {1, 2, 3, 4, 6, 7, 9, 10} : IsDigit(s[i])
       /\ s[5] = Dash
       /\ s[8] = Dash
    THEN LET y == 100 * Num2(s, 1) + Num2(s, 3)
             m == Num2(s, 6)
             d == Num2(s, 9)
         IN  IF y >= 1 /\ m >= 1 /\ m <= 12 /\ d >= 1 /\ d <= DaysInMonth(y, m)
             THEN [ok |-> TRUE, year |-> y]
             ELSE [ok |-> FALSE, year |-> 0]
    ELSE [ok |-> FALSE, year |-> 0]

(***************************************************************************)
(* Raw article records are functions from some of the keys to strings;     *)
(* article.get(key, '') defaults a missing key to the empty string.        *)
(***************************************************************************)
Get(article, key) ==
    IF key \in DOMAIN article THEN article[key] ELSE EmptyStr

\* the key of the sort: date_collected or publication_date or ''
SortKey(x) == Or(x.date_collected, Or(x.publication_date, EmptyStr))

\* faulty variant: a date that does not parse drops the record too
YearFilterSkipsUnparsed(date_to_check, current_year) ==
    /\ date_to_check # EmptyStr
    /\ LET parsed == FromIsoFormat(Prefix(date_to_check, 10))
       IN  ~parsed.ok \/ parsed.year # current_year

\* lines 63-69: TRUE when the record is dropped by the year filter
YearFilterSkips(date_to_check, current_year) ==
    /\ date_to_check # EmptyStr
    /\ LET parsed == FromIsoFormat(Prefix(date_to_check, 10))
       IN  parsed.ok /\ parsed.year # current_year

\* faulty variant: the url is never looked up in the urls already present
UrlSkipsNoLookup(url, existing_urls) ==
    url = EmptyStr

\* line 54: not url or url in existing_urls
UrlSkips(url, existing_urls) ==
    url = EmptyStr \/ url \in existing_urls

\* lines 71-78
MakeEntry(article) ==
    [title            |-> Get(article, "title"),
     url              |-> Get(article, "url"),
     date_collected   |-> Get(article, "created_at"),
     publication_date |-> Get(article, "publication_date"),
     source           |-> Get(article, "source"),
     full_text        |-> Get(article, "full_text")]

\* faulty variant: a record whose url is already present replaces the stored entry
LoopBodyUpdates(acc, article, current_year) ==
    LET url == Get(article, "url")
        date_to_check == Or(Get(article, "created_at"), Get(article, "publication_date"))
    IN  IF url = EmptyStr \/ YearFilterSkips(date_to_check, current_year) THEN acc
        ELSE IF url \in acc.existing_urls
        THEN [acc EXCEPT !.existing =
                  [i \in 1..Len(acc.existing) |->
                      IF acc.existing[i].url = url THEN MakeEntry(article)
                      ELSE acc.existing[i]]]
        ELSE [existing      |-> Append(acc.existing, MakeEntry(article)),
              existing_urls |-> acc.existing_urls \cup {url},
              new_count     |-> acc.new_count + 1]

\* lines 53-82: one pass of the loop body over the accumulated state
LoopBody(acc, article, current_year) ==
    LET url == Get(article, "url")
        date_collected == Get(article, "created_at")
        pub_date == Get(article, "publication_date")
        date_to_check == Or(date_collected, pub_date)
    IN  IF UrlSkips(url, acc.existing_urls) THEN acc
        ELSE IF YearFilterSkips(date_to_check, current_year) THEN acc
        ELSE [existing      |-> Append(acc.existing, MakeEntry(article)),
              existing_urls |-> acc.existing_urls \cup {url},
              new_count     |-> acc.new_count + 1]

\* lines 47-82: the loop over articles, from the loaded entries
RECURSIVE MergeFrom(_, _, _, _)
MergeFrom(acc, articles, i, current_year) ==
    IF i > Len(articles) THEN acc
    ELSE MergeFrom(LoopBody(acc, articles[i], current_year), articles, i + 1,
                   current_year)

Merge(loaded, articles, current_year) ==
    MergeFrom([existing      |-> loaded,
               existing_urls |-> {loaded[i].url : i \in 1..Len(loaded)},
               new_count     |-> 0],
              articles, 1, current_year)

(***************************************************************************)
(* list.sort(key=..., reverse=True): descending by key, and stable, equal  *)
(* keys keeping the order they had.  Computed as an insertion sort.        *)
(***************************************************************************)
\* faulty variant: x goes before the elements whose key equals its own
InsertPosBeforeTies(s, x) ==
    Cardinality({j \in 1..Len(s) : StrLess(SortKey(x), SortKey(s[j]))})

\* where x goes in the sorted list s: after every element whose key is >= its own
InsertPos(s, x) ==
    Cardinality({j \in 1..Len(s) : ~StrLess(SortKey(s[j]), SortKey(x))})

InsertDesc(s, x) ==
    LET k == InsertPos(s, x)
    IN  SubSeq(s, 1, k) \o <<x>> \o SubSeq(s, k + 1, Len(s))

RECURSIVE SortDescFrom(_, _, _)
SortDescFrom(sorted, s, i) ==
    IF i > Len(s) THEN sorted
    ELSE SortDescFrom(InsertDesc(sorted, s[i]), s, i + 1)

SortDesc(s) == SortDescFrom(<< >>, s, 1)

(***************************************************************************)
(* Documents and files.                                                    *)
(***************************************************************************)
\* faulty variant: total_articles counts the new entries only
OutputDocCountsNew(existing, new_count, current_year, now) ==
    [meta     |-> [year           |-> current_year,
                   total_articles |-> new_count,
                   last_updated   |-> now,
                   new_this_run   |-> new_count],
     articles |-> existing]

\* lines 91-99
OutputDoc(existing, new_count, current_year, now) ==
    [meta     |-> [year           |-> current_year,
                   total_articles |-> Len(existing),
                   last_updated   |-> now,
                   new_this_run   |-> new_count],
     articles |-> existing]

\* faulty variant: the reset store keeps the archived year
EmptyDocSameYear(year, now) ==
    [meta     |-> [year           |-> year,
                   total_articles |-> 0,
                   last_updated   |-> now,
                   new_this_run   |-> 0],
     articles |-> << >>]

\* lines 136-144
EmptyDoc(year, now) ==
    [meta     |-> [year           |-> year + 1,
                   total_articles |-> 0,
                   last_updated   |-> now,
                   new_this_run   |-> 0],
     articles |-> << >>]

\* what a path holds: nothing, a file of no bytes (as open(..., 'w') leaves it),
\* bytes that are no UTF-8 text, text that is no JSON,
\* or a JSON value (an array, an object without "articles", or a store document)
NoDoc == [meta     |-> [year |-> 0, total_articles |-> 0, last_updated |-> 0,
                        new_this_run |-> 0],
          articles |-> << >>]
Absent == [kind |-> "absent", doc |-> NoDoc]
Empty == [kind |-> "empty", doc |-> NoDoc]
NotUtf8 == [kind |-> "not_utf8", doc |-> NoDoc]
NotJson == [kind |-> "not_json", doc |-> NoDoc]
JsonArray == [kind |-> "json_array", doc |-> NoDoc]
JsonObjectNoArticles == [kind |-> "json_object_no_articles", doc |-> NoDoc]
JsonDoc(doc) == [kind |-> "json_doc", doc |-> doc]

\* self.output_path and the default archive_path, articles_{year}.json beside it
MainPath == <<"articles.json">>
ArchivePathOf(year) == <<"articles_", year, ".json">>
None == <<"None">>

\* lines 21-30: the entries loaded, or the exception that leaves _load_existing
LoadExisting(file) ==
    CASE file.kind = "absent"   -> [raised |-> "", value |-> << >>]
      [] file.kind = "empty"    -> [raised |-> "", value |-> << >>]
      [] file.kind = "not_json" -> [raised |-> "", value |-> << >>]
      [] file.kind = "not_utf8" -> [raised |-> "UnicodeDecodeError", value |-> << >>]
      [] file.kind = "json_array" -> [raised |-> "AttributeError", value |-> << >>]
      [] file.kind = "json_object_no_articles" -> [raised |-> "", value |-> << >>]
      [] OTHER -> [raised |-> "", value |-> file.doc.articles]

\* lines 127-128: json.load of the main store in archive_year
JsonLoad(file) ==
    CASE file.kind = "empty"    -> [raised |-> "JSONDecodeError", value |-> file]
      [] file.kind = "not_json" -> [raised |-> "JSONDecodeError", value |-> file]
      [] file.kind = "not_utf8" -> [raised |-> "UnicodeDecodeError", value |-> file]
      [] OTHER -> [raised |-> "", value |-> file]

(***************************************************************************)
(* The inputs: the records export is handed, the years and destinations    *)
(* archive_year is handed.                                                 *)
(***************************************************************************)
Url(n) == <<117, Digit(n)>>                      \* "u1", "u2", ...
Title(n) == <<116, Digit(n)>>                    \* "t1", "t2", ...
NotADate == <<110, 111, 116, Dash, 97, Dash, 100, 97, 116, 101>>  \* "not-a-date"
Text == <<120>>                                  \* "x"

\* the records of the runs that mix export and archive_year
StoreRecords ==
    { [url |-> Url(1), title |-> Title(1), created_at |-> IsoDate(2024, 1, 3),
       publication_date |-> IsoDate(2024, 1, 1), source |-> Text, full_text |-> Text],
      [url |-> Url(2), title |-> Title(2), publication_date |-> IsoDate(2025, 1, 1)] }

\* the records of the runs about deduplication: two records for each of two urls
DedupRecords ==
    StoreRecords \cup
    { [url |-> Url(1), title |-> Title(2), created_at |-> IsoDate(2024, 1, 1)],
      [url |-> Url(2), title |-> Title(1), created_at |-> IsoDate(2024, 1, 1)] }

\* the records of the runs about the year filter: a timestamp of 2024, a publication
\* date of 2025 alone, a created_at that is no date (with a publication date of
\* 2025 that must not be looked at), a day that does not exist, no date at all
FilterRecords ==
    { [url |-> Url(1), title |-> Title(1),
       created_at |-> IsoDate(2024, 1, 2) \o IsoTime(10)],
      [url |-> Url(1), title |-> Title(2), publication_date |-> IsoDate(2025, 1, 1)],
      [url |-> Url(2), title |-> Title(1), created_at |-> NotADate,
       publication_date |-> IsoDate(2025, 1, 1)],
      [url |-> Url(2), title |-> Title(2), created_at |-> IsoDate(2024, 2, 30)],
      [url |-> Url(3), title |-> Title(3)] }

\* the records of the runs about the order: the three days of the spec's example,
\* a publication date that ties with one of them, a timestamp, and no date at all
SortRecords ==
    { [url |-> Url(1), title |-> Title(1), created_at |-> IsoDate(2024, 1, 3)],
      [url |-> Url(2), title |-> Title(1), created_at |-> IsoDate(2024, 1, 1)],
      [url |-> Url(3), title |-> Title(1), created_at |-> IsoDate(2024, 1, 2)],
      [url |-> Url(4), title |-> Title(1), publication_date |-> IsoDate(2024, 1, 1)],
      [url |-> Url(5), title |-> Title(1)] }

RECURSIVE SeqsUpTo(_, _)
SeqsUpTo(S, n) ==
    IF n = 0 THEN { << >> }
    ELSE LET shorter == SeqsUpTo(S, n - 1)
         IN  shorter \cup { Append(q, x) : q \in shorter, x \in S }

Batches(records) == SeqsUpTo(records, MaxBatch)
YearArgs == {FirstYear, FirstYear + 1}
PathArgs == {None, MainPath, ArchivePathOf(FirstYear)}
Paths == {MainPath} \cup { ArchivePathOf(y) : y \in YearArgs }

(***************************************************************************)
(* State.                                                                  *)
(***************************************************************************)
VARIABLES
    fs,          \* path -> what the path holds
    clock,       \* the current UTC year (datetime.utcnow().year)
    last,        \* history: the last call, its arguments, what it read and did
    everStored,  \* history: every entry the main store has held
    procs,       \* concurrent callers: where each is in its call, and what it holds
    writes       \* history: how many times the main store was written by them

vars == <<fs, clock, last, everStored, procs, writes>>

Procs == {1, 2}

IdleProc ==
    [pc |-> "idle", op |-> "none", articles |-> << >>, year |-> 0, current_year |-> 0,
     loaded |-> << >>, data |-> Absent, readAt |-> 0, wroteAt |-> 0]

EntriesOf(file) ==
    IF file.kind = "json_doc"
    THEN { file.doc.articles[i] : i \in 1..Len(file.doc.articles) }
    ELSE {}

NoCall ==
    [op |-> "none", articles |-> << >>, year |-> 0, archive_path |-> None,
     pre |-> Absent, loaded |-> << >>, current_year |-> 0,
     dest |-> None, archived |-> Absent, raised |-> ""]

Init ==
    /\ fs = [p \in Paths |-> Absent]
    /\ clock = FirstYear
    /\ last = NoCall
    /\ everStored = {}
    /\ procs = [p \in Procs |-> IdleProc]
    /\ writes = 0

\* lines 32-108: export(articles).  (The \E over a one-element set binds the value
\* computed once, where a LET would compute it again at each use.)
Export(articles) ==
    \E current_year \in {clock} :
    \E ld \in {LoadExisting(fs[MainPath])} :
    \E merged \in {Merge(ld.value, articles, current_year)} :
    \E existing \in {SortDesc(merged.existing)} :
    \E output \in {OutputDoc(existing, merged.new_count, current_year, clock)} :
        /\ fs' = IF ld.raised # "" THEN fs
                 ELSE [fs EXCEPT ![MainPath] = JsonDoc(output)]
        /\ last' = [NoCall EXCEPT !.op = "export", !.articles = articles,
                                  !.pre = fs[MainPath], !.loaded = ld.value,
                                  !.current_year = current_year,
                                  !.raised = ld.raised]
        /\ everStored' = everStored \cup EntriesOf(fs'[MainPath])
        /\ UNCHANGED <<clock, procs, writes>>

\* lines 110-150: archive_year(year, archive_path)
ArchiveYear(year, archive_path) ==
    LET dest == IF archive_path = None THEN ArchivePathOf(year) ELSE archive_path
        data == JsonLoad(fs[MainPath])
        exists == fs[MainPath].kind # "absent"
        copied == [fs EXCEPT ![dest] = data.value]
    IN  /\ fs' = IF ~exists \/ data.raised # "" THEN fs
                 ELSE [copied EXCEPT ![MainPath] = JsonDoc(EmptyDoc(year, clock))]
        /\ last' = [NoCall EXCEPT !.op = "archive_year", !.year = year,
                                  !.archive_path = archive_path,
                                  !.pre = fs[MainPath], !.dest = dest,
                                  !.archived = IF exists /\ data.raised = ""
                                               THEN data.value ELSE Absent,
                                  !.raised = IF exists THEN data.raised ELSE ""]
        /\ UNCHANGED <<clock, everStored, procs, writes>>

\* the UTC year advances between two calls
Tick ==
    /\ clock < LastYear
    /\ clock' = clock + 1
    /\ last' = NoCall
    /\ UNCHANGED <<fs, everStored, procs, writes>>

\* any sequence of export and archive_year calls, the year advancing between calls
Next ==
    \/ \E articles \in Batches(StoreRecords) : Export(articles)
    \/ \E year \in YearArgs, archive_path \in PathArgs : ArchiveYear(year, archive_path)
    \/ Tick

Spec == Init /\ [][Next]_vars

\* the same, archive_year always called with its default destination
NextDefault ==
    \/ \E articles \in Batches(StoreRecords) : Export(articles)
    \/ \E year \in YearArgs : ArchiveYear(year, None)
    \/ Tick

SpecDefault == Init /\ [][NextDefault]_vars

\* what the exporter may find at its output path when it is constructed
PersistedStates == {Absent, Empty, NotUtf8, NotJson, JsonArray, JsonObjectNoArticles}

InitLoad ==
    /\ \E file \in PersistedStates :
          fs = [p \in Paths |-> IF p = MainPath THEN file ELSE Absent]
    /\ clock = FirstYear
    /\ last = NoCall
    /\ everStored = {}
    /\ procs = [p \in Procs |-> IdleProc]
    /\ writes = 0

SpecLoad == InitLoad /\ [][NextDefault]_vars

\* any sequence of export calls, the year advancing between calls, for each set of
\* records
NextDedup ==
    \/ \E articles \in Batches(DedupRecords) : Export(articles)
    \/ Tick

SpecDedup == Init /\ [][NextDedup]_vars

NextFilter ==
    \/ \E articles \in Batches(FilterRecords) : Export(articles)
    \/ Tick

SpecFilter == Init /\ [][NextFilter]_vars

\* any sequence of export calls within one year
NextSort == \E articles \in Batches(SortRecords) : Export(articles)

SpecSort == Init /\ [][NextSort]_vars

(***************************************************************************)
(* Two callers at once on the same output path.  Each call is cut where it *)
(* touches the file system: export reads the store (line 47), opens it for *)
(* writing, which empties it (line 101), and writes it (line 102);         *)
(* archive_year reads the store (lines 126-128), opens and writes the      *)
(* archive (130-131), opens and writes the store (145-146).  Nothing in    *)
(* the code orders the steps of two callers.                               *)
(***************************************************************************)
RaceRecords ==
    { [url |-> Url(1), title |-> Title(1), created_at |-> IsoDate(2024, 1, 3)],
      [url |-> Url(2), title |-> Title(1), created_at |-> IsoDate(2024, 1, 1)] }

\* the store an earlier export of one undated record has left
StoredBefore ==
    JsonDoc(OutputDoc(SortDesc(Merge(<< >>, << [url |-> Url(3), title |-> Title(3)] >>,
                                     FirstYear).existing),
                      1, FirstYear, FirstYear))

\* the length of the text json.dump(doc, f, ensure_ascii=False, indent=2) writes,
\* for a document of fewer than ten entries whose strings need no escape
EntryTextLen(e) ==
    149 + Len(e.title) + Len(e.url) + Len(e.date_collected)
        + Len(e.publication_date) + Len(e.source) + Len(e.full_text)

RECURSIVE EntriesTextLen(_, _)
EntriesTextLen(entries, i) ==
    IF i > Len(entries) THEN 0
    ELSE EntryTextLen(entries[i]) + EntriesTextLen(entries, i + 1)

TextLen(doc) ==
    153 + (IF doc.articles = << >> THEN 0 ELSE 2 + EntriesTextLen(doc.articles, 1))

\* faulty variant: a file written to since it was opened keeps what it holds
DumpResultsKeep(current, content) ==
    IF current.kind = "empty" THEN {content} ELSE {current}

\* lines 101-102, 130-131, 145-146: what the file holds after json.dump and close.
\* The text, shorter than the writer's buffer, goes to the file in one piece at close,
\* from the start of the file.  It is the whole file when the file is still as open()
\* left it.  Written over the text another caller has put there since, it is the
\* whole file when it is at least as long; when shorter it is followed by the rest of
\* the other text, which is no JSON.
DumpResults(current, content) ==
    IF current.kind = "empty" THEN {content}
    ELSE IF current.kind = "json_doc" /\ content.kind = "json_doc"
    THEN (IF TextLen(content.doc) >= TextLen(current.doc) THEN {content}
          ELSE {NotJson})
    ELSE {content, NotJson}

InitRace ==
    /\ \E file \in {Absent, StoredBefore} :
          fs = [p \in Paths |-> IF p = MainPath THEN file ELSE Absent]
    /\ clock = FirstYear
    /\ last = NoCall
    /\ everStored = {}
    /\ procs = [p \in Procs |-> IdleProc]
    /\ writes = 0

\* lines 44-48 of export
ExportLoad(p, articles) ==
    /\ procs[p].pc = "idle"
    /\ LET ld == LoadExisting(fs[MainPath])
       IN  procs' = [procs EXCEPT ![p] =
                        [@ EXCEPT !.pc = IF ld.raised # "" THEN "raised"
                                         ELSE "export_loaded",
                                  !.op = "export",
                                  !.articles = articles,
                                  !.current_year = clock,
                                  !.loaded = ld.value,
                                  !.readAt = writes]]
    /\ UNCHANGED <<fs, clock, last, everStored, writes>>

\* lines 50-101 of export: the merge and the sort, in memory, then open(..., 'w')
ExportOpen(p) ==
    /\ procs[p].pc = "export_loaded"
    /\ fs' = [fs EXCEPT ![MainPath] = Empty]
    /\ procs' = [procs EXCEPT ![p].pc = "export_open"]
    /\ UNCHANGED <<clock, last, everStored, writes>>

\* the document an export call writes
OutputOf(proc) ==
    LET merged == Merge(proc.loaded, proc.articles, proc.current_year)
    IN  OutputDoc(SortDesc(merged.existing), merged.new_count, proc.current_year,
                  proc.current_year)

\* line 102 of export, and the end of the with block
ExportDump(p) ==
    /\ procs[p].pc = "export_open"
    /\ \E file \in DumpResults(fs[MainPath], JsonDoc(OutputOf(procs[p]))) :
          fs' = [fs EXCEPT ![MainPath] = file]
    /\ writes' = writes + 1
    /\ procs' = [procs EXCEPT ![p] = [@ EXCEPT !.pc = "done", !.wroteAt = writes + 1]]
    /\ UNCHANGED <<clock, last, everStored>>

\* lines 121-128 of archive_year
ArchiveRead(p, year) ==
    /\ procs[p].pc = "idle"
    /\ LET data == JsonLoad(fs[MainPath])
       IN  procs' = [procs EXCEPT ![p] =
                        [@ EXCEPT !.pc = IF fs[MainPath].kind = "absent" THEN "done"
                                         ELSE IF data.raised # "" THEN "raised"
                                         ELSE "archive_read",
                                  !.op = "archive_year",
                                  !.year = year,
                                  !.data = IF fs[MainPath].kind = "absent" THEN Absent
                                           ELSE data.value,
                                  !.readAt = writes]]
    /\ UNCHANGED <<fs, clock, last, everStored, writes>>

\* line 130 of archive_year
ArchiveOpenDest(p) ==
    /\ procs[p].pc = "archive_read"
    /\ fs' = [fs EXCEPT ![ArchivePathOf(procs[p].year)] = Empty]
    /\ procs' = [procs EXCEPT ![p].pc = "archive_dest_open"]
    /\ UNCHANGED <<clock, last, everStored, writes>>

\* line 131 of archive_year
ArchiveDumpDest(p) ==
    /\ procs[p].pc = "archive_dest_open"
    /\ \E file \in DumpResults(fs[ArchivePathOf(procs[p].year)], procs[p].data) :
          fs' = [fs EXCEPT ![ArchivePathOf(procs[p].year)] = file]
    /\ procs' = [procs EXCEPT ![p].pc = "archive_copied"]
    /\ UNCHANGED <<clock, last, everStored, writes>>

\* lines 136-145 of archive_year
ArchiveOpenMain(p) ==
    /\ procs[p].pc = "archive_copied"
    /\ fs' = [fs EXCEPT ![MainPath] = Empty]
    /\ procs' = [procs EXCEPT ![p].pc = "archive_main_open"]
    /\ UNCHANGED <<clock, last, everStored, writes>>

\* line 146 of archive_year
ArchiveDumpMain(p) ==
    /\ procs[p].pc = "archive_main_open"
    /\ \E file \in DumpResults(fs[MainPath],
                               JsonDoc(EmptyDoc(procs[p].year, clock))) :
          fs' = [fs EXCEPT ![MainPath] = file]
    /\ writes' = writes + 1
    /\ procs' = [procs EXCEPT ![p] = [@ EXCEPT !.pc = "done", !.wroteAt = writes + 1]]
    /\ UNCHANGED <<clock, last, everStored>>

NextRace ==
    \E p \in Procs :
        \/ \E articles \in Batches(RaceRecords) : ExportLoad(p, articles)
        \/ ExportOpen(p)
        \/ ExportDump(p)
        \/ ArchiveRead(p, FirstYear)
        \/ ArchiveOpenDest(p)
        \/ ArchiveDumpDest(p)
        \/ ArchiveOpenMain(p)
        \/ ArchiveDumpMain(p)

SpecRace == InitRace /\ [][NextRace]_vars

(***************************************************************************)
(* The claims.                                                             *)
(***************************************************************************)
MainFile == fs[MainPath]
\* the date an entry is filed under: date_collected if non-empty, else publication_date
DateOf(e) == Or(e.date_collected, e.publication_date)
MainArticles == MainFile.doc.articles
UrlsOf(entries) == { entries[i].url : i \in 1..Len(entries) }
ExportDone == last.op = "export" /\ last.raised = ""

\* C1: no two entries of the main store have the same url, whatever export and
\* archive_year calls were made on a store that started missing.
C1_UniqueUrl ==
    \A i, j \in 1..Len(MainArticles) :
        MainArticles[i].url = MainArticles[j].url => i = j

\* C1 witness: a record already stored by an earlier call is exported twice in one
\* call, and the store holds exactly one entry for its url.
C1_Witness ==
    /\ ExportDone
    /\ \E i, j \in 1..Len(last.articles) :
          /\ i < j
          /\ last.articles[i] = last.articles[j]
          /\ MakeEntry(last.articles[i]) \in EntriesOf(last.pre)
          /\ Cardinality({ k \in 1..Len(MainArticles) :
                             MainArticles[k].url = Get(last.articles[i], "url") }) = 1

\* C2: every stored entry whose date (date_collected, else publication_date) parses
\* belongs to the year in meta.year.
C2_EntriesOfMetaYear ==
    MainFile.kind = "json_doc" =>
        \A i \in 1..Len(MainArticles) :
            LET parsed == FromIsoFormat(Prefix(DateOf(MainArticles[i]), 10))
            IN  parsed.ok => parsed.year = MainFile.doc.meta.year

\* C3: export on a store that is absent, not valid JSON, or valid JSON without the
\* articles list never raises, and writes a store built from the new records only.
C3_LoadNeverRaises ==
    (/\ last.op = "export"
     /\ last.pre.kind \in {"absent", "empty", "not_json", "json_array",
                           "json_object_no_articles"})
    => /\ last.raised = ""
       /\ last.loaded = << >>
       /\ MainFile.kind = "json_doc"
       /\ Len(MainArticles) = MainFile.doc.meta.new_this_run

\* C4: archive_year(Y) on an existing store of N entries writes the store's document
\* unchanged to the archive destination (where it stays unless the destination is the
\* main store itself) and leaves the main store empty, with total_articles = 0,
\* new_this_run = 0 and year = Y + 1.
C4_ArchiveReset ==
    (last.op = "archive_year" /\ last.pre.kind = "json_doc") =>
        /\ last.raised = ""
        /\ last.archived = last.pre
        /\ last.dest # MainPath => fs[last.dest] = last.pre
        /\ MainFile.kind = "json_doc"
        /\ MainArticles = << >>
        /\ MainFile.doc.meta.total_articles = 0
        /\ MainFile.doc.meta.new_this_run = 0
        /\ MainFile.doc.meta.year = last.year + 1

\* C4 witness: a store holding an entry of another year than Y was archived as year Y
\* to the default destination.
C4_Witness ==
    /\ last.op = "archive_year"
    /\ last.archive_path = None
    /\ last.pre.kind = "json_doc"
    /\ \E e \in EntriesOf(fs[ArchivePathOf(last.year)]) :
          LET parsed == FromIsoFormat(Prefix(DateOf(e), 10))
          IN  parsed.ok /\ parsed.year # last.year

\* C5: in the main store and in every archive written, meta.total_articles is the
\* number of entries in articles.
C5_TotalIsLength ==
    /\ \A p \in Paths :
          fs[p].kind = "json_doc" =>
              fs[p].doc.meta.total_articles = Len(fs[p].doc.articles)
    /\ last.archived.kind = "json_doc" =>
          last.archived.doc.meta.total_articles = Len(last.archived.doc.articles)

\* C5 witness: an archive holding two entries beside a main store that was refilled.
C5_Witness ==
    /\ Len(MainArticles) > 0
    /\ \E y \in YearArgs : Len(fs[ArchivePathOf(y)].doc.articles) = 2

\* C10: every entry the main store ever held is still in the main store or in an
\* archive.
C10_NothingLost ==
    everStored \subseteq UNION { EntriesOf(fs[p]) : p \in Paths }

\* the condition of the year filter as the spec words it
PassesYearFilter(article, current_year) ==
    LET date_to_check == Or(Get(article, "created_at"), Get(article, "publication_date"))
        parsed == FromIsoFormat(Prefix(date_to_check, 10))
    IN  date_to_check = EmptyStr \/ ~parsed.ok \/ parsed.year = current_year

\* the url of record i was in the store, or came with an earlier record that passed
SeenBefore(i) ==
    LET url == Get(last.articles[i], "url")
    IN  \/ url \in UrlsOf(last.loaded)
        \/ \E j \in 1..(i - 1) :
              /\ Get(last.articles[j], "url") = url
              /\ PassesYearFilter(last.articles[j], last.current_year)

\* C6: a record with a non-empty url not seen before is stored if and only if its
\* date_to_check is empty, or does not parse, or parses to the current year.
C6_YearFilter ==
    ExportDone =>
        \A i \in 1..Len(last.articles) :
            (Get(last.articles[i], "url") # EmptyStr /\ ~SeenBefore(i)) =>
                (MakeEntry(last.articles[i]) \in EntriesOf(MainFile)
                    <=> PassesYearFilter(last.articles[i], last.current_year))

\* C6 witness: one call in which a record dated in another year was skipped and a
\* record whose created_at is "not-a-date" was stored; and a store holding a record
\* without any date field.
C6_Witness ==
    /\ ExportDone
    /\ \E i, j \in 1..Len(last.articles) :
          /\ ~SeenBefore(i) /\ ~SeenBefore(j)
          /\ Get(last.articles[i], "url") # EmptyStr
          /\ ~PassesYearFilter(last.articles[i], last.current_year)
          /\ MakeEntry(last.articles[i]) \notin EntriesOf(MainFile)
          /\ Get(last.articles[j], "created_at") = NotADate
          /\ MakeEntry(last.articles[j]) \in EntriesOf(MainFile)
    /\ \E e \in EntriesOf(MainFile) : DateOf(e) = EmptyStr

\* where an entry is in a list, and where the record it was made from is in the input
PosIn(seq, e) == CHOOSE i \in 1..Len(seq) : seq[i] = e
FirstInput(e) ==
    CHOOSE i \in 1..Len(last.articles) :
        /\ MakeEntry(last.articles[i]) = e
        /\ \A j \in 1..(i - 1) : MakeEntry(last.articles[j]) # e

\* x comes before y in the accumulated list
AccumulatedBefore(x, y) ==
    LET stored == EntriesOf(last.pre)
    IN  \/ x \in stored /\ y \in stored /\ PosIn(last.loaded, x) < PosIn(last.loaded, y)
        \/ x \in stored /\ y \notin stored
        \/ x \notin stored /\ y \notin stored /\ FirstInput(x) < FirstInput(y)

\* C7: after an export the articles are in non-increasing order of their key, compared
\* as strings, and two entries with equal keys are in the order they had in the
\* accumulated list: stored entries first, in stored order, then the new ones in input
\* order.
C7_SortedStable ==
    ExportDone =>
        \A i, j \in 1..Len(MainArticles) :
            i < j =>
                /\ ~StrLess(SortKey(MainArticles[i]), SortKey(MainArticles[j]))
                /\ SortKey(MainArticles[i]) = SortKey(MainArticles[j])
                       => AccumulatedBefore(MainArticles[i], MainArticles[j])

\* C7 witness: the store holds the days 03, 02, 01 of January 2024 in that order, the
\* last call added an entry whose key ties with a stored one, and an entry without a
\* date comes last.
C7_Witness ==
    /\ ExportDone
    /\ Len(MainArticles) = 5
    /\ SortKey(MainArticles[1]) = IsoDate(2024, 1, 3)
    /\ SortKey(MainArticles[2]) = IsoDate(2024, 1, 2)
    /\ SortKey(MainArticles[3]) = IsoDate(2024, 1, 1)
    /\ SortKey(MainArticles[4]) = IsoDate(2024, 1, 1)
    /\ SortKey(MainArticles[5]) = EmptyStr
    /\ MainArticles[3] \in EntriesOf(last.pre)
    /\ MainArticles[4] \notin EntriesOf(last.pre)

Appended(proc) ==
    LET merged == Merge(proc.loaded, proc.articles, proc.current_year)
    IN  { merged.existing[i] : i \in (Len(proc.loaded) + 1)..Len(merged.existing) }

ReadBy(proc) ==
    IF proc.op = "export"
    THEN { proc.loaded[i] : i \in 1..Len(proc.loaded) }
    ELSE EntriesOf(proc.data)

HandedTo(proc) == { MakeEntry(proc.articles[i]) : i \in 1..Len(proc.articles) }

InSomeFile(e) == \E path \in Paths : e \in EntriesOf(fs[path])

\* C9: nothing orders two concurrent calls.  Whenever a caller q that read the store
\* before an export p wrote it writes the store after p, every entry p appended that
\* q neither read nor was handed is in no file afterwards; with both reading before
\* either writes, this is the lost update.
C9_StaleWriteLosesUpdate ==
    \A p, q \in Procs :
        (/\ p # q
         /\ procs[p].pc = "done" /\ procs[q].pc = "done"
         /\ procs[p].op = "export"
         /\ procs[q].readAt < procs[p].wroteAt
         /\ procs[p].wroteAt < procs[q].wroteAt)
        => \A e \in Appended(procs[p]) \ (ReadBy(procs[q]) \cup HandedTo(procs[q])) :
              ~InSomeFile(e)

\* C9 witness: two calls have both read the store before either wrote it, both have
\* finished, the store is a well-formed document holding what the later writer
\* appended, and an entry that the other export appended is neither in the main store
\* nor in any archive.
C9_Witness ==
    /\ \A p \in Procs : procs[p].pc = "done" /\ procs[p].readAt = 0
                        /\ procs[p].wroteAt > 0
    /\ MainFile.kind = "json_doc"
    /\ Len(MainArticles) > 0
    /\ \E p \in Procs :
          /\ procs[p].op = "export"
          /\ \E e \in Appended(procs[p]) : ~InSomeFile(e)

====
